---- MODULE Spec2Model ----
(***************************************************************************)
(* A model of core/smtp_client.go: the outbound SMTP client.               *)
(*                                                                         *)
(* Two state machines share this module.                                   *)
(*   ConnSpec : newSMTPClient, the search over routes and candidate pairs  *)
(*              (local IP policy, remote resolution, dial raced against a  *)
(*              timer, greeting).                                          *)
(*   Spec     : one connected smtpClient and its methods (cmd, Noop,      *)
(*              Hello, Ehlo, Helo, StartTLS, Auth, Mail, Rcpt, Data,     *)
(*              Quit), with the textproto pipeline they run on.           *)
(*                                                                         *)
(* Strings are sequences of tokens.  In a local-IP specification a token   *)
(* is a whole textual address or one separator character; in a server     *)
(* message a string is a sequence of lines, a line a sequence of words.    *)
(***************************************************************************)
EXTENDS Integers, Sequences, FiniteSets, TLC

\* ------------------------------------------------------------------ bounds
MaxRoutes == 2

\* ------------------------------------------------------- addresses, strings
\* Textual IPv4 and IPv6 addresses; any other token is not an address.
V4 == {"a", "b", "r1", "r2"}
V6 == {"6", "r6"}

NilIP == "nil"

\* strings.Count(s, sep) for a one-character separator.
RECURSIVE Count(_, _)
Count(s, sep) ==
    IF s = <<>> THEN 0
    ELSE (IF Head(s) = sep THEN 1 ELSE 0) + Count(Tail(s), sep)

\* strings.Split(s, sep): the segments between the separators; n separators
\* give n+1 segments, empty ones included.
RECURSIVE SplitFrom(_, _, _)
SplitFrom(s, sep, cur) ==
    IF s = <<>> THEN <<cur>>
    ELSE IF Head(s) = sep THEN <<cur>> \o SplitFrom(Tail(s), sep, <<>>)
    ELSE SplitFrom(Tail(s), sep, Append(cur, Head(s)))

Split(s, sep) == SplitFrom(s, sep, <<>>)

\* net.ParseIP: the address a string spells, or nil.
ParseIP(str) ==
    IF Len(str) = 1 /\ str[1] \in V4 \cup V6 THEN str[1] ELSE NilIP

\* IsIPV4 (defined elsewhere in package core): whether the textual address
\* is an IPv4 one.
IsIPV4(ip) == ip \in V4

\* net.ResolveTCPAddr("tcp", localIP.String()+":0") succeeds for an IPv4
\* literal; an IPv6 literal joined to ":0" without brackets is rejected
\* ("too many colons in address").
ResolveTCPAddrOK(ip) == ip \in V4

\* rand.Perm(n): every permutation of 1..n.
Perm(n) == {p \in [1..n -> 1..n] : \A i, j \in 1..n : p[i] = p[j] => i = j}

\* net.LookupIP(host): what the resolver may answer for a hostname. <<>> is
\* a lookup error.
LookupIP(host) ==
    IF host = <<"h">>
    THEN {<<>>, <<"r1">>, <<"r1", "r2">>, <<"r6", "r1">>}
    ELSE {<<>>}

\* ------------------------------------------------------------------ errors
NoErr == [kind |-> "nil", route |-> 0, text |-> <<>>]
ErrConfig(id) == [kind |-> "config", route |-> id, text |-> <<>>]
ErrInvalidIP(ipStr) == [kind |-> "invalidIP", route |-> 0, text |-> ipStr]
ErrLookup == [kind |-> "lookup", route |-> 0, text |-> <<>>]
ErrBadLocal(ip) == [kind |-> "badLocalIP", route |-> 0, text |-> <<ip>>]
ErrDial == [kind |-> "dial", route |-> 0, text |-> <<>>]
ErrTimeout == [kind |-> "timeout", route |-> 0, text |-> <<>>]
ErrExhausted == [kind |-> "exhausted", route |-> 0, text |-> <<>>]

\* ------------------------------------------------------------------ inputs
\* The local-IP specifications the routes are drawn from.
LocalIpSpecs ==
    { <<"a">>, <<"6">>, <<"x">>,
      <<"a", "&", "b">>, <<"a", "|", "b">>, <<"a", "&", "6">>,
      <<"a", "&", "b", "|", "6">> }

RemoteHosts == { <<"r1">>, <<"h">> }

RouteOf(id, lip, host) ==
    [Id |-> id, LocalIp |-> lip, RemoteHost |-> host, RemotePort |-> 25]

RouteLists ==
    UNION { { [i \in 1..n |-> RouteOf(i, f[i][1], f[i][2])] :
                f \in [1..n -> LocalIpSpecs \X RemoteHosts] } :
            n \in 1..MaxRoutes }

\* ------------------------------------------------------- session: strings
\* A string is its sequence of tokens; " " and "\n" are tokens of their own.
SP == " "
NL == "\n"

\* strings.SplitN(s, sep, 2): s itself when sep does not occur, else the part
\* before the first sep and the whole rest.
SplitN2(s, sep) ==
    IF \A i \in 1..Len(s) : s[i] # sep
    THEN <<s>>
    ELSE LET i == CHOOSE k \in 1..Len(s) :
                     s[k] = sep /\ \A m \in 1..(k - 1) : s[m] # sep
         IN  <<SubSeq(s, 1, i - 1), SubSeq(s, i + 1, Len(s))>>

\* strings.ToUpper, token by token.
UpperTok(t) ==
    CASE t = "auth" -> "AUTH"
      [] t = "size" -> "SIZE"
      [] t = "starttls" -> "STARTTLS"
      [] OTHER -> t

ToUpper(str) == [i \in 1..Len(str) |-> UpperTok(str[i])]

\* base64.StdEncoding on the byte strings that occur.
B64 == [r1 |-> "cjE=", c1 |-> "YzE="]

Encode(bytes) ==
    IF bytes = <<>> THEN <<>> ELSE [i \in 1..Len(bytes) |-> B64[bytes[i]]]

DecodeOK(str) == \A i \in 1..Len(str) : \E b \in DOMAIN B64 : B64[b] = str[i]

DecodeString(str) ==
    [i \in 1..Len(str) |-> CHOOSE b \in DOMAIN B64 : B64[b] = str[i]]

\* -------------------------------------------------------- session: errors
NilErr == [kind |-> "nil", code |-> 0, msg |-> <<>>]
\* errors.New("server do not reply in time -> timeout")
ErrNoReplyInTime == [kind |-> "timeout", code |-> 0, msg |-> <<>>]
\* an error of the transport: a failed write or read
ErrIO == [kind |-> "io", code |-> 0, msg |-> <<>>]
\* &textproto.Error{Code: code, Msg: msg}
TextprotoError(code, msg) == [kind |-> "textproto", code |-> code, msg |-> msg]
\* errors.New(msg)
ErrorsNew(msg) == [kind |-> "errorsNew", code |-> 0, msg |-> msg]
\* base64.CorruptInputError
ErrCorruptInput == [kind |-> "base64", code |-> 0, msg |-> <<>>]
\* an error returned by the authenticator
ErrAuthenticator == [kind |-> "authenticator", code |-> 0, msg |-> <<>>]

\* ---------------------------------------------------- session: the server
\* EHLO responses as ReadResponse returns them: the lines joined by "\n",
\* codes and continuation marks stripped.
EhloMsgs ==
    { <<"greet">>,
      <<"greet", NL, "AUTH", SP, "PLAIN", SP, "LOGIN", NL, "SIZE", SP, "100">>,
      <<"greet", NL, "STARTTLS", NL, "size", SP, "100">>,
      <<"greet", NL, "AUTH", SP, "LOGIN">> }

Rep(code, msg) == [kind |-> "reply", code |-> code, msg |-> msg]

\* The replies a server may give to a command line, by its first token.
ServerReplies(line) ==
    LET verb == line[1]
    IN  CASE verb = "EHLO" ->
               {Rep(250, m) : m \in EhloMsgs} \cup {Rep(502, <<"no">>)}
          [] verb = "HELO" -> {Rep(250, <<"greet">>), Rep(502, <<"no">>)}
          [] verb = "NOOP" -> {Rep(200, <<"ok">>), Rep(250, <<"ok">>)}
          [] verb = "STARTTLS" -> {Rep(220, <<"go">>), Rep(454, <<"no">>)}
          [] verb = "MAIL FROM:<" -> {Rep(250, <<"ok">>), Rep(550, <<"no">>)}
          [] verb = "RCPT TO:<" ->
               {Rep(250, <<"ok">>), Rep(251, <<"will", SP, "forward">>),
                Rep(252, <<"cannot", SP, "vrfy">>), Rep(550, <<"no">>)}
          [] verb = "DATA" -> {Rep(354, <<"go">>), Rep(554, <<"no">>)}
          [] verb = "QUIT" -> {Rep(221, <<"bye">>), Rep(250, <<"ok">>)}
          [] verb = "*" -> {Rep(501, <<"aborted">>), Rep(250, <<"ok">>)}
          [] OTHER ->   \* AUTH and the responses that follow it
               {Rep(235, <<"ok">>), Rep(334, <<"YzE=">>), Rep(334, <<"!">>),
                Rep(535, <<"no">>)}

\* The server's reaction to a line written: it never answers, or it does.
\* What an answer brings is seen by the read that takes it: a reply, or a
\* read error.
Silent == [kind |-> "silent", code |-> 0, msg |-> <<>>]
Answered == [kind |-> "answered", code |-> 0, msg |-> <<>>]
ReadError == [kind |-> "ioerr", code |-> 0, msg |-> <<>>]
NoReply == [kind |-> "none", code |-> 0, msg |-> <<>>]

Reactions == {Silent, Answered}

Arrivals(line) == ServerReplies(line) \cup {ReadError}

\* ------------------------------------------------- session: textproto.Conn
\* textproto.NewConn: a pipeline with its id counter and its request and
\* response sequencers at 0.
NewConn(overTLS) == [tls |-> overTLS, next |-> 0, req |-> 0, resp |-> 0]

\* parseCodeLine's test of the expected code.
ExpectOK(expectCode, code) ==
    ~ \/ (1 <= expectCode /\ expectCode < 10 /\ code \div 100 # expectCode)
      \/ (10 <= expectCode /\ expectCode < 100 /\ code \div 10 # expectCode)
      \/ (100 <= expectCode /\ expectCode < 1000 /\ code # expectCode)

\* textproto.Reader.ReadResponse(expectCode) on what has arrived.
ReadResponse(expectCode, r) ==
    IF r.kind = "ioerr"
    THEN [code |-> 0, msg |-> <<>>, err |-> ErrIO]
    ELSE [code |-> r.code, msg |-> r.msg,
          err |-> IF ExpectOK(expectCode, r.code) THEN NilErr
                  ELSE TextprotoError(r.code, r.msg)]

\* ------------------------------------------------------ session: the caller
Me == "me"
\* the pluggable authenticator: what Start and Next may return
StartResults ==
    { [mech |-> "PLAIN", has |-> TRUE, resp |-> <<"r1">>, err |-> NilErr],
      [mech |-> "LOGIN", has |-> FALSE, resp |-> <<>>, err |-> NilErr],
      [mech |-> "", has |-> FALSE, resp |-> <<>>, err |-> ErrAuthenticator] }

NextResults ==
    { [has |-> TRUE, resp |-> <<"r1">>, err |-> NilErr],
      [has |-> FALSE, resp |-> <<>>, err |-> NilErr],
      [has |-> FALSE, resp |-> <<>>, err |-> ErrAuthenticator] }

NilMap == [nil |-> TRUE, m |-> <<>>]
NoRv == [has |-> FALSE, via |-> "", code |-> 0, msg |-> <<>>, err |-> NilErr]
NoOut == [fn |-> "", via |-> "", code |-> 0, msg |-> <<>>, err |-> NilErr]
NoCmd == [timeoutSeconds |-> 0, expectedCode |-> 0, line |-> <<>>, id |-> 0]
NoGot == [read |-> FALSE, code |-> 0, msg |-> <<>>, of |-> 0, by |-> 0]
NoAuth == [code |-> 0, err |-> NilErr, hasInitial |-> FALSE, replies |-> <<>>,
           nexts |-> <<>>, sent |-> <<>>]
NoTLS == [called |-> FALSE, got220 |-> FALSE, switched |-> FALSE, ehloOK |-> FALSE]

VARIABLES
    \* newSMTPClient
    routes,           \* the argument
    npc,              \* position in newSMTPClient
    ri,               \* index of the route of the outer loop
    sIps,             \* the local IP strings of the route, in trial order
    localIPs,         \* the parsed local addresses
    remoteAddresses,  \* the remote candidates of the route
    li, ai,           \* indices of the two inner loops
    dialG,            \* the dial goroutine: "none", "running", "done"
    done,             \* channel done: <<>> or <<error>>
    connectTimer,     \* whether connectTimer.C holds a tick
    err,              \* the variable err of the loop body
    conn,             \* the variable conn of the loop body
    result,           \* what newSMTPClient returned
    netLog,           \* the network operations performed and the timeouts
                      \* taken, in order
    \* smtpClient
    text,             \* s.text: the textproto.Conn and its pipeline
    closed,           \* whether the transport has been closed
    broken,           \* whether a write on the transport has failed
    connTLS,          \* whether s.connTLS is set
    ext,              \* s.ext
    auth,             \* s.auth
    ehloDone,         \* whether an Ehlo has succeeded on this client
    tls,              \* s.tls
    \* the method being executed
    stack,            \* the frames of the running call, innermost last
    rv,               \* the value a callee has just returned to the top frame
    out,              \* what the last top-level call returned
    ncalls,           \* top-level calls made so far
    \* cmd
    cpc,              \* position in cmd: "idle", "select", "read"
    cmdq,             \* the running cmd: expected code, command line, id
    send,             \* its goroutine: "none", "pending", "done"
    cerr,             \* the variable err the goroutine stores into
    doneCh,           \* whether channel done holds a value
    timeoutCh,        \* whether channel timeout holds a value
    orphans,          \* ids of abandoned goroutines still to send
    reply,            \* the server's reaction to the command this cmd sent
    stream,           \* the server's reactions to the lines written, in the
                      \* order written, up to the first not yet read
    got,              \* the response cmd last read
    \* Auth and StartTLS
    authv,            \* Auth's variables and what it has done: the replies
                      \* dispatched, the calls of Next, the lines handed to
                      \* cmd (by Quit too)
    tlsv              \* what the latest StartTLS call has done

connVars == <<routes, npc, ri, sIps, localIPs, remoteAddresses, li, ai,
              dialG, done, connectTimer, err, conn, result, netLog>>

sessVars == <<text, closed, broken, connTLS, ext, auth, ehloDone, tls, stack, rv, out,
              ncalls, cpc, cmdq, send, cerr, doneCh, timeoutCh, orphans,
              reply, stream, got, authv, tlsv>>

vars == <<connVars, sessVars>>

NoResult == [client |-> FALSE, route |-> 0, local |-> NilIP, remote |-> NilIP,
             err |-> NoErr, panic |-> FALSE]

\* The fields of &smtpClient{conn: conn} with text set (lines 129-132), no
\* method running.
SessFresh ==
    /\ text = NewConn(FALSE)
    /\ closed = FALSE
    /\ broken = FALSE
    /\ connTLS = FALSE
    /\ ext = NilMap
    /\ auth = <<>>
    /\ ehloDone = FALSE
    /\ tls = FALSE
    /\ stack = <<>>
    /\ rv = NoRv
    /\ out = NoOut
    /\ ncalls = 0
    /\ cpc = "idle"
    /\ cmdq = NoCmd
    /\ send = "none"
    /\ cerr = NilErr
    /\ doneCh = FALSE
    /\ timeoutCh = FALSE
    /\ orphans = {}
    /\ reply = NoReply
    /\ stream = <<>>
    /\ got = NoGot
    /\ authv = NoAuth
    /\ tlsv = NoTLS

ConnInit ==
    /\ SessFresh
    /\ routes \in RouteLists
    /\ npc = "route"
    /\ ri = 1
    /\ sIps = <<>>
    /\ localIPs = <<>>
    /\ remoteAddresses = <<>>
    /\ li = 1
    /\ ai = 1
    /\ dialG = "none"
    /\ done = <<>>
    /\ connectTimer = FALSE
    /\ err = NoErr
    /\ conn = FALSE
    /\ result = NoResult
    /\ netLog = <<>>

\* ------------------------------------------------------------ newSMTPClient
route == routes[ri]

failover(lip) == Count(lip, "&") # 0
roundRobin(lip) == Count(lip, "|") # 0

\* Mixed with the test dropped: the route is then handled as a failover one.
MixedNeverDetected(lip) == FALSE

\* The test of line 40: failover and round-robin are mixed.
Mixed(lip) == failover(lip) /\ roundRobin(lip)

\* rSIps[v] = sIps[i] for i, v := range perm
Shuffle(s, perm) == [v \in 1..Len(s) |-> s[CHOOSE i \in 1..Len(s) : perm[i] = v]]

\* The lists sIps may be after lines 45-67: the whole string for a single
\* address; otherwise the split list, shuffled (for either separator).
SIpsOf(lip) ==
    IF ~failover(lip) /\ ~roundRobin(lip)
    THEN { <<lip>> }
    ELSE LET sep == IF failover(lip) THEN "&" ELSE "|"
             split == Split(lip, sep)
         IN  { Shuffle(split, perm) : perm \in Perm(Len(split)) }

Return(client, rt, l, r, e) ==
    /\ result' = [client |-> client, route |-> rt, local |-> l, remote |-> r,
                  err |-> e, panic |-> FALSE]
    /\ npc' = "returned"

\* Lines 34-76: the next route of the outer loop; its local IP policy.
ParseLocalIp ==
    /\ UNCHANGED sessVars
    /\ npc = "route"
    /\ ri <= Len(routes)
    /\ IF Mixed(route.LocalIp)
       THEN /\ Return(FALSE, 0, NilIP, NilIP, ErrConfig(route.Id))
            /\ UNCHANGED <<sIps, localIPs>>
       ELSE \E s \in SIpsOf(route.LocalIp) :
              /\ sIps' = s
              /\ LET bad == {i \in 1..Len(s) : ParseIP(s[i]) = NilIP}
                 IN  IF bad # {}
                     THEN LET i == CHOOSE k \in bad : \A m \in bad : k <= m
                          IN  /\ Return(FALSE, 0, NilIP, NilIP, ErrInvalidIP(s[i]))
                              /\ UNCHANGED localIPs
                     ELSE /\ localIPs' = [i \in 1..Len(s) |-> ParseIP(s[i])]
                          /\ npc' = "remote"
                          /\ UNCHANGED result
    /\ UNCHANGED <<routes, ri, remoteAddresses, li, ai, dialG, done,
                   connectTimer, err, conn, netLog>>

TCPAddr(ip, port) == [IP |-> ip, Port |-> port]

\* Lines 78-100: the remote candidates, a literal IP or a name lookup.
ResolveRemote ==
    /\ UNCHANGED sessVars
    /\ npc = "remote"
    /\ LET ip == ParseIP(route.RemoteHost)
       IN  IF ip # NilIP
           THEN /\ remoteAddresses' = <<TCPAddr(ip, route.RemotePort)>>
                /\ npc' = "pair"
                /\ UNCHANGED <<result, netLog>>
           ELSE \E ips \in LookupIP(route.RemoteHost) :
                  /\ netLog' = Append(netLog, [op |-> "lookup", route |-> ri,
                                               local |-> NilIP, remote |-> NilIP])
                  /\ IF ips = <<>>
                     THEN /\ Return(FALSE, 0, NilIP, NilIP, ErrLookup)
                          /\ UNCHANGED remoteAddresses
                     ELSE /\ remoteAddresses' =
                               [i \in 1..Len(ips) |-> TCPAddr(ips[i], route.RemotePort)]
                          /\ npc' = "pair"
                          /\ UNCHANGED result
    /\ li' = 1
    /\ ai' = 1
    /\ UNCHANGED <<routes, ri, sIps, localIPs, dialG, done, connectTimer,
                   err, conn>>

\* The filter dropped: every pair goes on to be dialled.
SkippedNever(localIP, remoteIP) == FALSE

\* Lines 106-108: a pair whose addresses differ in family is skipped.
Skipped(localIP, remoteIP) == IsIPV4(localIP) # IsIPV4(remoteIP)

\* Lines 103-124: the two inner loops up to the start of a dial.
NextPair ==
    /\ UNCHANGED sessVars
    /\ npc = "pair"
    /\ IF li > Len(localIPs)
       THEN /\ ri' = ri + 1
            /\ npc' = "route"
            /\ UNCHANGED <<li, ai, dialG, done, connectTimer, err, conn,
                           result, netLog>>
       ELSE IF ai > Len(remoteAddresses)
       THEN /\ li' = li + 1
            /\ ai' = 1
            /\ UNCHANGED <<ri, npc, dialG, done, connectTimer, err, conn,
                           result, netLog>>
       ELSE IF Skipped(localIPs[li], remoteAddresses[ai].IP)
       THEN /\ ai' = ai + 1
            /\ UNCHANGED <<ri, npc, li, dialG, done, connectTimer, err, conn,
                           result, netLog>>
       ELSE IF ~ResolveTCPAddrOK(localIPs[li])
       THEN /\ Return(FALSE, 0, NilIP, NilIP, ErrBadLocal(localIPs[li]))
            /\ UNCHANGED <<ri, li, ai, dialG, done, connectTimer, err, conn,
                           netLog>>
       ELSE /\ err' = NoErr
            /\ conn' = FALSE
            /\ done' = <<>>
            /\ connectTimer' = FALSE
            /\ dialG' = "running"
            /\ npc' = "select"
            /\ netLog' = Append(netLog, [op |-> "dial", route |-> ri,
                                         local |-> localIPs[li],
                                         remote |-> remoteAddresses[ai].IP])
            /\ UNCHANGED <<ri, li, ai, result>>
    /\ UNCHANGED <<routes, sIps, localIPs, remoteAddresses>>

\* Lines 121-124: the goroutine; net.DialTCP returns and its result is
\* stored in conn and err, then sent on done. It may run while the caller
\* waits in the select or, abandoned after a timeout, while the caller is
\* between the timeout case and its Log.Debug.
DialTCP ==
    /\ UNCHANGED sessVars
    /\ dialG = "running"
    /\ npc \in {"select", "log"}
    /\ \E ok \in BOOLEAN :
         /\ conn' = ok
         /\ err' = IF ok THEN NoErr ELSE ErrDial
         /\ done' = <<IF ok THEN NoErr ELSE ErrDial>>
    /\ dialG' = "done"
    /\ UNCHANGED <<routes, npc, ri, sIps, localIPs, remoteAddresses, li, ai,
                   connectTimer, result, netLog>>

\* Line 118: the 30 second timer fires.
ConnectTimerFires ==
    /\ UNCHANGED sessVars
    /\ npc = "select"
    /\ ~connectTimer
    /\ connectTimer' = TRUE
    /\ UNCHANGED <<routes, npc, ri, sIps, localIPs, remoteAddresses, li, ai,
                   dialG, done, err, conn, result, netLog>>

\* The greeting read of line 133: ReadCodeLine(220) succeeds or fails.
Greetings == {"220", "554", "readError"}

\* Lines 127-139: case err = <-done.
SelectDone ==
    /\ UNCHANGED sessVars
    /\ npc = "select"
    /\ done # <<>>
    /\ err' = Head(done)
    /\ done' = <<>>
    /\ IF Head(done) = NoErr
       THEN \E g \in Greetings :
              /\ netLog' = Append(netLog, [op |-> "greet", route |-> ri,
                                           local |-> localIPs[li],
                                           remote |-> remoteAddresses[ai].IP])
              /\ IF g = "220"
                 THEN Return(TRUE, ri, localIPs[li], remoteAddresses[ai].IP, NoErr)
                 \* the error of ReadCodeLine is a variable of the inner
                 \* block: the one returned is the dial's, nil
                 ELSE Return(FALSE, 0, NilIP, NilIP, Head(done))
       ELSE /\ Return(FALSE, 0, NilIP, NilIP, Head(done))
            /\ UNCHANGED netLog
    /\ UNCHANGED <<routes, ri, sIps, localIPs, remoteAddresses, li, ai,
                   dialG, connectTimer, conn>>

\* Lines 141-143: case <-connectTimer.C.
SelectTimeout ==
    /\ UNCHANGED sessVars
    /\ npc = "select"
    /\ connectTimer
    /\ connectTimer' = FALSE
    /\ err' = ErrTimeout
    /\ npc' = "log"
    /\ netLog' = Append(netLog, [op |-> "timeout", route |-> ri,
                                 local |-> localIPs[li],
                                 remote |-> remoteAddresses[ai].IP])
    /\ UNCHANGED <<routes, ri, sIps, localIPs, remoteAddresses, li, ai,
                   dialG, done, conn, result>>

\* Line 144: Log.Debug(..., err.Error()); then the next remote address. The
\* goroutine of this iteration is left behind. err is read without
\* synchronisation: the goroutine may have stored nil over the timeout,
\* and err.Error() on a nil error panics.
LogDebug ==
    /\ UNCHANGED sessVars
    /\ npc = "log"
    /\ IF err = NoErr
       THEN /\ result' = [NoResult EXCEPT !.panic = TRUE]
            /\ npc' = "returned"
            /\ UNCHANGED <<ai, dialG>>
       ELSE /\ ai' = ai + 1
            /\ dialG' = "none"
            /\ npc' = "pair"
            /\ UNCHANGED result
    /\ UNCHANGED <<routes, ri, sIps, localIPs, remoteAddresses, li,
                   done, connectTimer, err, conn, netLog>>

\* Line 149: all routes have been tested.
Exhausted ==
    /\ UNCHANGED sessVars
    /\ npc = "route"
    /\ ri > Len(routes)
    /\ Return(FALSE, 0, NilIP, NilIP, ErrExhausted)
    /\ UNCHANGED <<routes, ri, sIps, localIPs, remoteAddresses, li, ai,
                   dialG, done, connectTimer, err, conn, netLog>>

ConnNext ==
    \/ ParseLocalIp
    \/ ResolveRemote
    \/ NextPair
    \/ DialTCP
    \/ ConnectTimerFires
    \/ SelectDone
    \/ SelectTimeout
    \/ LogDebug
    \/ Exhausted

ConnSpec == ConnInit /\ [][ConnNext]_vars

\* ---------------------------------------------------------- smtpClient.cmd
MaxCalls == 2
MaxAuthRounds == 2

Idle == stack = <<>> /\ cpc = "idle"
Top == stack[Len(stack)]
Pop == SubSeq(stack, 1, Len(stack) - 1)
At(fn, at) == stack # <<>> /\ Top = [fn |-> fn, at |-> at]
Frame(fn, at) == [fn |-> fn, at |-> at]

\* Lines 158-170 of cmd on the textproto.Conn t: the channels, the timer,
\* and the goroutine, which takes the next pipeline id.
BeginCmd(t, timeoutSeconds, expectedCode, line) ==
    /\ text' = [t EXCEPT !.next = @ + 1]
    /\ cmdq' = [timeoutSeconds |-> timeoutSeconds, expectedCode |-> expectedCode,
                line |-> line, id |-> t.next]
    /\ cpc' = "select"
    /\ send' = "pending"
    /\ cerr' = NilErr
    /\ doneCh' = FALSE
    /\ timeoutCh' = FALSE
    /\ reply' = NoReply
    /\ got' = NoGot
    /\ rv' = NoRv

\* cmd returns (code, msg, err) to the method that called it; the deferred
\* timer.Stop() runs.
CmdReturn(code, msg, e) ==
    /\ rv' = [has |-> TRUE, via |-> "cmd", code |-> code, msg |-> msg, err |-> e]
    /\ cpc' = "idle"
    /\ cmdq' = NoCmd
    /\ send' = "none"
    /\ cerr' = NilErr
    /\ doneCh' = FALSE
    /\ timeoutCh' = FALSE
    /\ reply' = NoReply

\* Lines 167-170: the goroutine's s.text.Cmd. StartRequest waits for the
\* request sequencer to reach the id; the line is written, or the write
\* fails (always, once the transport is closed or has failed); EndRequest;
\* done <- true. A command written draws the server's reaction.
GoSend ==
    /\ cpc = "select"
    /\ send = "pending"
    /\ text.req = cmdq.id
    /\ text' = [text EXCEPT !.req = @ + 1]
    /\ send' = "done"
    /\ doneCh' = TRUE
    /\ \/ /\ ~closed /\ ~broken
          /\ cerr' = NilErr
          /\ \E r \in Reactions :
               /\ reply' = r
               /\ stream' = Append(stream, [id |-> cmdq.id, line |-> cmdq.line,
                                            r |-> r])
          /\ UNCHANGED broken
       \/ /\ cerr' = ErrIO
          /\ broken' = TRUE
          /\ UNCHANGED <<reply, stream>>
    /\ UNCHANGED <<connVars, closed, connTLS, ext, auth, ehloDone, tls, stack, rv, out,
                   ncalls, cpc, cmdq, timeoutCh, orphans, got, authv, tlsv>>

\* Lines 163-165: the timer of timeoutSeconds fires: timeout <- true. It is
\* stopped only when cmd returns.
TimerFires ==
    /\ cpc \in {"select", "read"}
    /\ ~timeoutCh
    /\ timeoutCh' = TRUE
    /\ UNCHANGED <<connVars, stream, text, closed, broken, connTLS, ext,
                   auth, ehloDone, tls,
                   stack, rv, out, ncalls, cpc, cmdq, send, cerr, doneCh,
                   orphans, reply, got, authv, tlsv>>

\* Lines 173-174: case <-timeout. The goroutine is left behind; it still
\* holds its place in the request sequencer if it has not written yet.
CmdSelectTimeout ==
    /\ cpc = "select"
    /\ timeoutCh
    /\ CmdReturn(0, <<>>, ErrNoReplyInTime)
    /\ orphans' = IF send = "pending"
                  THEN orphans \cup {[id |-> cmdq.id, line |-> cmdq.line]}
                  ELSE orphans
    /\ UNCHANGED <<connVars, stream, text, closed, broken, connTLS, ext,
                   auth, ehloDone, tls,
                   stack, out, ncalls, got, authv, tlsv>>

\* Lines 175-178: case <-done; the send's error is returned, or cmd goes on
\* to read the response.
CmdSelectDone ==
    /\ cpc = "select"
    /\ doneCh
    /\ IF cerr # NilErr
       THEN CmdReturn(0, <<>>, cerr)
       ELSE /\ cpc' = "read"
            /\ doneCh' = FALSE
            /\ UNCHANGED <<rv, cmdq, send, cerr, timeoutCh, reply>>
    /\ UNCHANGED <<connVars, stream, text, closed, broken, connTLS, ext,
                   auth, ehloDone, tls,
                   stack, out, ncalls, orphans, got, authv, tlsv>>

\* Lines 179-182: StartResponse waits for the response sequencer to reach
\* the id; ReadResponse waits for the next response to arrive on the
\* transport and takes it, whichever line it answers; EndResponse.
CmdRead ==
    /\ cpc = "read"
    /\ text.resp = cmdq.id
    /\ stream # <<>>
    /\ Head(stream).r = Answered
    /\ \E arrived \in Arrivals(Head(stream).line) :
         LET r == ReadResponse(cmdq.expectedCode, arrived)
         IN  /\ CmdReturn(r.code, r.msg, r.err)
             /\ got' = [read |-> arrived.kind = "reply", code |-> arrived.code,
                         msg |-> arrived.msg, of |-> Head(stream).id,
                         by |-> cmdq.id]
    /\ stream' = Tail(stream)
    /\ text' = [text EXCEPT !.resp = @ + 1]
    /\ UNCHANGED <<connVars, closed, broken, connTLS, ext, auth, ehloDone, tls, stack,
                   out, ncalls, orphans, authv, tlsv>>

\* A goroutine left behind by a timed-out cmd gets to write its line: the
\* write draws the server's reaction, or fails.
OrphanSend ==
    /\ \E o \in orphans :
         /\ text.req = o.id
         /\ text' = [text EXCEPT !.req = @ + 1]
         /\ orphans' = orphans \ {o}
         /\ \/ /\ ~closed /\ ~broken
               /\ \E r \in Reactions :
                    stream' = Append(stream, [id |-> o.id, line |-> o.line,
                                             r |-> r])
               /\ UNCHANGED broken
            \/ /\ broken' = TRUE
               /\ UNCHANGED stream
    /\ UNCHANGED <<connVars, closed, connTLS, ext, auth, ehloDone, tls, stack,
                   rv, out, ncalls, cpc, cmdq, send, cerr, doneCh, timeoutCh,
                   reply, got, authv, tlsv>>

\* A method returns (code, msg, err): to its caller's frame, or, from the
\* outermost frame, to the user of the client.
ReturnTo(code, msg, e, via) ==
    IF Len(stack) = 1
    THEN /\ stack' = <<>>
         /\ out' = [fn |-> Top.fn, via |-> via, code |-> code, msg |-> msg, err |-> e]
         /\ rv' = NoRv
    ELSE /\ stack' = Pop
         /\ rv' = [has |-> TRUE, via |-> via, code |-> code, msg |-> msg, err |-> e]
         /\ UNCHANGED out

\* The user of the client calls a method: no call is running.
CanCall == Idle /\ npc = "returned" /\ result.client /\ ncalls < MaxCalls

\* ------------------------------------------------- smtpClient: the methods
cmdLocals == <<cpc, cmdq, send, cerr, doneCh, timeoutCh, reply, got>>

\* A top-level call begins.
Called(fn, at) ==
    /\ CanCall
    /\ stack' = <<Frame(fn, at)>>
    /\ out' = NoOut
    /\ ncalls' = ncalls + 1
    /\ authv' = NoAuth

\* The method on top returns what its callee returned.
ReturnRv == ReturnTo(rv.code, rv.msg, rv.err, rv.via)

\* Lines 231-233: Noop is cmd(30, 200, "NOOP").
Noop ==
    /\ Called("Noop", "cmd")
    /\ BeginCmd(text, 30, 200, <<"NOOP">>)
    /\ UNCHANGED <<connVars, stream, closed, broken, connTLS, ext, auth,
                   ehloDone, tls, orphans,
                   tlsv>>

NoopReturn ==
    /\ At("Noop", "cmd") /\ rv.has
    /\ ReturnRv
    /\ UNCHANGED <<connVars, stream, text, closed, broken, connTLS, ext,
                   auth, ehloDone, tls,
                   ncalls, cmdLocals, orphans, authv, tlsv>>

\* Lines 336-338: Mail is cmd(30, 250, "MAIL FROM:<%s>", from).
Mail ==
    /\ Called("Mail", "cmd")
    /\ BeginCmd(text, 30, 250, <<"MAIL FROM:<", "u", ">">>)
    /\ UNCHANGED <<connVars, stream, closed, broken, connTLS, ext, auth,
                   ehloDone, tls, orphans,
                   tlsv>>

MailReturn ==
    /\ At("Mail", "cmd") /\ rv.has
    /\ ReturnRv
    /\ UNCHANGED <<connVars, stream, text, closed, broken, connTLS, ext,
                   auth, ehloDone, tls,
                   ncalls, cmdLocals, orphans, authv, tlsv>>

\* The || in place of &&: every code is rejected.
RcptRejectsEither(code) == code # 250 \/ code # 251

\* Line 343: the codes Rcpt turns into an error.
RcptRejects(code) == code # 250 /\ code # 251

\* Lines 341-342: Rcpt is cmd(30, -1, "RCPT TO:<%s>", to) ...
Rcpt ==
    /\ Called("Rcpt", "cmd")
    /\ BeginCmd(text, 30, -1, <<"RCPT TO:<", "u", ">">>)
    /\ UNCHANGED <<connVars, stream, closed, broken, connTLS, ext, auth,
                   ehloDone, tls, orphans,
                   tlsv>>

\* Lines 343-346: ... whose error is replaced by errors.New(msg) unless the
\* code is 250 or 251.
RcptReturn ==
    /\ At("Rcpt", "cmd") /\ rv.has
    /\ ReturnTo(rv.code, rv.msg,
                IF RcptRejects(rv.code) THEN ErrorsNew(rv.msg) ELSE rv.err, "cmd")
    /\ UNCHANGED <<connVars, stream, text, closed, broken, connTLS, ext,
                   auth, ehloDone, tls,
                   ncalls, cmdLocals, orphans, authv, tlsv>>

\* Lines 358-364: Data is cmd(30, 354, "DATA"); on success the dataCloser
\* over s.text.DotWriter() is returned with the code and message.
Data ==
    /\ Called("Data", "cmd")
    /\ BeginCmd(text, 30, 354, <<"DATA">>)
    /\ UNCHANGED <<connVars, stream, closed, broken, connTLS, ext, auth,
                   ehloDone, tls, orphans,
                   tlsv>>

DataReturn ==
    /\ At("Data", "cmd") /\ rv.has
    /\ ReturnRv
    /\ UNCHANGED <<connVars, stream, text, closed, broken, connTLS, ext,
                   auth, ehloDone, tls,
                   ncalls, cmdLocals, orphans, authv, tlsv>>

\* Line 368: Quit starts with cmd(10, 221, "QUIT").
EnterQuit(stk) ==
    /\ stack' = Append(stk, Frame("Quit", "cmd"))
    /\ BeginCmd(text, 10, 221, <<"QUIT">>)

Quit ==
    /\ Called("Quit", "cmd")
    /\ BeginCmd(text, 10, 221, <<"QUIT">>)
    /\ UNCHANGED <<connVars, stream, closed, broken, connTLS, ext, auth,
                   ehloDone, tls, orphans,
                   tlsv>>

\* Lines 369-370: once cmd has returned, s.text.Close(), and return.
QuitReturn ==
    /\ At("Quit", "cmd") /\ rv.has
    /\ closed' = TRUE
    /\ ReturnTo(rv.code, rv.msg, rv.err, "Quit")
    /\ UNCHANGED <<connVars, stream, text, broken, connTLS, ext, auth,
                   ehloDone, tls,
                   ncalls, cmdLocals, orphans, authv, tlsv>>

\* Lines 250-262: the extensions of an EHLO response: the lines after the
\* first, each split at its first space into keyword and argument.
ParseExt(msg) ==
    LET extList == Split(msg, NL)
        lines == IF Len(extList) > 1 THEN Tail(extList) ELSE <<>>
        key(i) == SplitN2(lines[i], SP)[1]
        keys == {key(i) : i \in 1..Len(lines)}
    IN  [nil |-> FALSE,
         m |-> [k \in keys |->
                 LET i == CHOOSE j \in 1..Len(lines) :
                            key(j) = k /\ \A n \in (j + 1)..Len(lines) : key(n) # k
                     args == SplitN2(lines[i], SP)
                 IN  IF Len(args) > 1 THEN args[2] ELSE <<>>]]

\* Lines 263-265: s.auth after an EHLO response whose extensions are e.
AuthAfter(e) ==
    IF <<"AUTH">> \in DOMAIN e.m THEN Split(e.m[<<"AUTH">>], SP) ELSE auth

\* Line 246: Ehlo starts with cmd(10, 250, "EHLO %s", Cfg.GetMe()), on the
\* textproto.Conn t.
EnterEhlo(stk, t) ==
    /\ stack' = Append(stk, Frame("Ehlo", "cmd"))
    /\ BeginCmd(t, 10, 250, <<"EHLO", SP, Me>>)

Ehlo ==
    /\ Called("Ehlo", "cmd")
    /\ BeginCmd(text, 10, 250, <<"EHLO", SP, Me>>)
    /\ UNCHANGED <<connVars, stream, closed, broken, connTLS, ext, auth,
                   ehloDone, tls, orphans,
                   tlsv>>

\* Lines 247-267: an error is returned as it is; else s.ext is the map
\* parsed, and s.auth is set if that map has the key AUTH.
EhloReturn ==
    /\ At("Ehlo", "cmd") /\ rv.has
    /\ IF rv.err # NilErr
       THEN UNCHANGED <<ext, auth, ehloDone>>
       ELSE /\ ext' = ParseExt(rv.msg)
            /\ auth' = AuthAfter(ParseExt(rv.msg))
            /\ ehloDone' = TRUE
    /\ ReturnTo(rv.code, rv.msg, rv.err, "Ehlo")
    /\ UNCHANGED <<connVars, stream, text, closed, broken, connTLS, tls,
                   ncalls, cmdLocals, orphans, authv, tlsv>>

\* Lines 272-273: Helo sets s.ext to nil, then cmd(30, 250, "HELO %s", me).
EnterHelo(stk) ==
    /\ stack' = Append(stk, Frame("Helo", "cmd"))
    /\ ext' = NilMap
    /\ BeginCmd(text, 30, 250, <<"HELO", SP, Me>>)

Helo ==
    /\ Called("Helo", "cmd")
    /\ ext' = NilMap
    /\ BeginCmd(text, 30, 250, <<"HELO", SP, Me>>)
    /\ UNCHANGED <<connVars, stream, closed, broken, connTLS, auth, ehloDone,
                   tls, orphans,
                   tlsv>>

\* Line 274.
HeloReturn ==
    /\ At("Helo", "cmd") /\ rv.has
    /\ ReturnTo(rv.code, rv.msg, rv.err, "Helo")
    /\ UNCHANGED <<connVars, stream, text, closed, broken, connTLS, ext,
                   auth, ehloDone, tls,
                   ncalls, cmdLocals, orphans, authv, tlsv>>

\* Line 237: Hello calls Ehlo.
Hello ==
    /\ CanCall
    /\ out' = NoOut
    /\ ncalls' = ncalls + 1
    /\ authv' = NoAuth
    /\ EnterEhlo(<<Frame("Hello", "ehlo")>>, text)
    /\ UNCHANGED <<connVars, stream, closed, broken, connTLS, ext, auth,
                   ehloDone, tls, orphans,
                   tlsv>>

\* Lines 238-241: Ehlo's result is returned if it has no error; else Helo
\* is called.
HelloAfterEhlo ==
    /\ At("Hello", "ehlo") /\ rv.has
    /\ IF rv.err = NilErr
       THEN /\ ReturnRv
            /\ UNCHANGED <<text, ext, cmdLocals>>
       ELSE /\ EnterHelo(<<Frame("Hello", "helo")>>)
            /\ UNCHANGED out
    /\ UNCHANGED <<connVars, stream, closed, broken, connTLS, auth, ehloDone,
                   tls, ncalls,
                   orphans, authv, tlsv>>

\* Line 241: return s.Helo().
HelloAfterHelo ==
    /\ At("Hello", "helo") /\ rv.has
    /\ ReturnRv
    /\ UNCHANGED <<connVars, stream, text, closed, broken, connTLS, ext,
                   auth, ehloDone, tls,
                   ncalls, cmdLocals, orphans, authv, tlsv>>

\* The flag left as it was on entry.
TlsKeptAtEntry == tls

\* Line 279: s.tls = false.
TlsAtEntry == FALSE

\* Lines 279-280: StartTLS clears the flag, then cmd(30, 220, "STARTTLS").
StartTLS ==
    /\ Called("StartTLS", "cmd")
    /\ tls' = TlsAtEntry
    /\ tlsv' = [NoTLS EXCEPT !.called = TRUE]
    /\ BeginCmd(text, 30, 220, <<"STARTTLS">>)
    /\ UNCHANGED <<connVars, stream, closed, broken, connTLS, ext, auth,
                   ehloDone, orphans>>

\* Lines 281-286: an error is returned; else the TLS client over s.conn
\* becomes s.connTLS, s.text a new textproto.Conn over it, and Ehlo is
\* called (the handshake runs with its first write).
StartTLSAfterCmd ==
    /\ At("StartTLS", "cmd") /\ rv.has
    /\ IF rv.err # NilErr
       THEN /\ ReturnRv
            /\ UNCHANGED <<text, connTLS, cmdLocals, tlsv>>
       ELSE /\ connTLS' = TRUE
            /\ tlsv' = [tlsv EXCEPT !.got220 = TRUE, !.switched = TRUE]
            /\ EnterEhlo(<<Frame("StartTLS", "ehlo")>>, NewConn(TRUE))
            /\ UNCHANGED out
    /\ UNCHANGED <<connVars, stream, closed, broken, ext, auth, ehloDone,
                   tls, ncalls, orphans,
                   authv>>

\* Lines 287-291: Ehlo's error is returned; else s.tls = true.
StartTLSAfterEhlo ==
    /\ At("StartTLS", "ehlo") /\ rv.has
    /\ IF rv.err # NilErr
       THEN UNCHANGED <<tls, tlsv>>
       ELSE /\ tls' = TRUE
            /\ tlsv' = [tlsv EXCEPT !.ehloOK = TRUE]
    /\ ReturnRv
    /\ UNCHANGED <<connVars, stream, text, closed, broken, connTLS, ext,
                   auth, ehloDone,
                   ncalls, cmdLocals, orphans, authv>>

\* Every call of Next told that a challenge is pending.
MoreAlways(code) == TRUE

\* Line 317: the second argument of a.Next.
More(code) == code = 334

\* Lines 296-304: a.Start; on its error Quit, else cmd(30, 0, "AUTH %s %s",
\* mech, resp64).
Auth ==
    /\ CanCall
    /\ out' = NoOut
    /\ ncalls' = ncalls + 1
    /\ \E st \in StartResults :
         IF st.err # NilErr
         THEN /\ authv' = [NoAuth EXCEPT !.err = st.err, !.sent = <<<<"QUIT">>>>]
              /\ EnterQuit(<<Frame("Auth", "startQuit")>>)
         ELSE LET line == <<"AUTH", SP, st.mech, SP>> \o Encode(st.resp)
              IN  /\ authv' = [NoAuth EXCEPT !.hasInitial = st.has,
                                             !.sent = <<line>>]
                  /\ stack' = <<Frame("Auth", "cmd")>>
                  /\ BeginCmd(text, 30, 0, line)
    /\ UNCHANGED <<connVars, stream, closed, broken, connTLS, ext, auth,
                   ehloDone, tls, orphans,
                   tlsv>>

\* The error of DecodeString dropped: a challenge that is not base64 goes
\* to Next as an empty message.
DispatchIgnoresCorruptInput(code, msg64) ==
    CASE code = 334 ->
           [msg |-> IF DecodeOK(msg64) THEN DecodeString(msg64) ELSE <<>>,
            err |-> NilErr]
      [] code = 235 -> [msg |-> msg64, err |-> NilErr]
      [] OTHER -> [msg |-> <<>>, err |-> TextprotoError(code, msg64)]

\* The default case dropped: any other code is taken like 235.
DispatchAcceptsAnyCode(code, msg64) ==
    CASE code = 334 ->
           IF DecodeOK(msg64)
           THEN [msg |-> DecodeString(msg64), err |-> NilErr]
           ELSE [msg |-> <<>>, err |-> ErrCorruptInput]
      [] OTHER -> [msg |-> msg64, err |-> NilErr]

\* Lines 306-315: what the reply gives to hand to Next, or the error.
Dispatch(code, msg64) ==
    CASE code = 334 ->
           IF DecodeOK(msg64)
           THEN [msg |-> DecodeString(msg64), err |-> NilErr]
           ELSE [msg |-> <<>>, err |-> ErrCorruptInput]
      [] code = 235 -> [msg |-> msg64, err |-> NilErr]
      [] OTHER -> [msg |-> <<>>, err |-> TextprotoError(code, msg64)]

\* What a.Next may return at this point of the exchange.
NextResultsNow ==
    {nr \in NextResults : nr.has => Len(authv.nexts) < MaxAuthRounds}

\* Lines 305-332: one turn of the loop after cmd has returned. With an error
\* from cmd the loop is not entered (or left) and Auth returns it. Otherwise
\* the reply is dispatched and a.Next called; on an error "*" is sent; with
\* no further response Auth returns; else the response is sent.
AuthAfterCmd ==
    /\ At("Auth", "cmd") /\ rv.has
    /\ IF rv.err # NilErr
       THEN /\ authv' = [authv EXCEPT !.code = rv.code, !.err = rv.err]
            /\ ReturnTo(rv.code, <<>>, rv.err, "Auth")
            /\ UNCHANGED <<text, cmdLocals>>
       ELSE LET d == Dispatch(rv.code, rv.msg)
                seen == Append(authv.replies, [code |-> rv.code, msg |-> rv.msg])
            IN  IF d.err # NilErr
                THEN /\ authv' = [authv EXCEPT !.code = rv.code, !.err = d.err,
                                               !.replies = seen,
                                               !.sent = Append(@, <<"*">>)]
                     /\ stack' = <<Frame("Auth", "abort")>>
                     /\ BeginCmd(text, 10, 501, <<"*">>)
                     /\ UNCHANGED out
                ELSE \E nr \in NextResultsNow :
                       LET called == Append(authv.nexts,
                                            [msg |-> d.msg, more |-> More(rv.code),
                                             has |-> nr.has, err |-> nr.err])
                       IN  IF nr.err # NilErr
                           THEN /\ authv' = [authv EXCEPT !.code = rv.code,
                                                !.err = nr.err, !.replies = seen,
                                                !.nexts = called,
                                                !.sent = Append(@, <<"*">>)]
                                /\ stack' = <<Frame("Auth", "abort")>>
                                /\ BeginCmd(text, 10, 501, <<"*">>)
                                /\ UNCHANGED out
                           ELSE IF ~nr.has
                           THEN /\ authv' = [authv EXCEPT !.code = rv.code,
                                                !.replies = seen, !.nexts = called]
                                /\ ReturnTo(rv.code, <<>>, NilErr, "Auth")
                                /\ UNCHANGED <<text, cmdLocals>>
                           ELSE /\ authv' = [authv EXCEPT !.code = rv.code,
                                                !.replies = seen, !.nexts = called,
                                                !.sent = Append(@, Encode(nr.resp))]
                                /\ BeginCmd(text, 30, 0, Encode(nr.resp))
                                /\ UNCHANGED <<stack, out>>
    /\ UNCHANGED <<connVars, stream, closed, broken, connTLS, ext, auth,
                   ehloDone, tls, ncalls,
                   orphans, tlsv>>

\* Lines 321-322: after the abort line, whatever it returned, Quit.
AuthAfterAbort ==
    /\ At("Auth", "abort") /\ rv.has
    /\ EnterQuit(<<Frame("Auth", "abortQuit")>>)
    /\ authv' = [authv EXCEPT !.sent = Append(@, <<"QUIT">>)]
    /\ UNCHANGED <<connVars, stream, closed, broken, connTLS, ext, auth,
                   ehloDone, tls, out,
                   ncalls, orphans, tlsv>>

\* Lines 299-300 and 322-323, 332: after Quit, Auth returns its own code and
\* error; its result msg is never assigned.
AuthAfterQuit ==
    /\ (At("Auth", "startQuit") \/ At("Auth", "abortQuit")) /\ rv.has
    /\ ReturnTo(authv.code, <<>>, authv.err, "Auth")
    /\ UNCHANGED <<connVars, stream, text, closed, broken, connTLS, ext,
                   auth, ehloDone, tls,
                   ncalls, cmdLocals, orphans, authv, tlsv>>

\* Lines 187-194: Extension.
Extension(e) ==
    IF ext.nil THEN <<FALSE, <<>>>>
    ELSE IF ToUpper(e) \in DOMAIN ext.m THEN <<TRUE, ext.m[ToUpper(e)]>>
    ELSE <<FALSE, <<>>>>

\* Lines 129-136: the state in which newSMTPClient has returned a client.
Connected ==
    /\ routes = <<RouteOf(1, <<"a">>, <<"r1">>)>>
    /\ npc = "returned"
    /\ ri = 1
    /\ sIps = <<<<"a">>>>
    /\ localIPs = <<"a">>
    /\ remoteAddresses = <<TCPAddr("r1", 25)>>
    /\ li = 1
    /\ ai = 1
    /\ dialG = "done"
    /\ done = <<>>
    /\ connectTimer = FALSE
    /\ err = NoErr
    /\ conn = TRUE
    /\ result = [client |-> TRUE, route |-> 1, local |-> "a", remote |-> "r1",
                 err |-> NoErr, panic |-> FALSE]
    /\ netLog = << [op |-> "dial", route |-> 1, local |-> "a", remote |-> "r1"],
                   [op |-> "greet", route |-> 1, local |-> "a", remote |-> "r1"] >>

Init == Connected /\ SessFresh

Next ==
    \/ Noop \/ NoopReturn
    \/ Mail \/ MailReturn
    \/ Rcpt \/ RcptReturn
    \/ Data \/ DataReturn
    \/ Quit \/ QuitReturn
    \/ Ehlo \/ EhloReturn
    \/ Helo \/ HeloReturn
    \/ Hello \/ HelloAfterEhlo \/ HelloAfterHelo
    \/ StartTLS \/ StartTLSAfterCmd \/ StartTLSAfterEhlo
    \/ Auth \/ AuthAfterCmd \/ AuthAfterAbort \/ AuthAfterQuit
    \/ GoSend \/ TimerFires \/ CmdSelectTimeout \/ CmdSelectDone \/ CmdRead
    \/ OrphanSend

Spec == Init /\ [][Next]_vars

\* ------------------------------------------------- claims on newSMTPClient
Returned == npc = "returned"

\* A candidate pair after (li, ai) of the current route that the family
\* filter lets through.
LaterPairInRoute ==
    \E l \in 1..Len(localIPs), a \in 1..Len(remoteAddresses) :
       /\ l > li \/ (l = li /\ a > ai)
       /\ IsIPV4(localIPs[l]) = IsIPV4(remoteAddresses[a].IP)

\* newSMTPClient returned because the attempt at pair (li, ai) failed: the
\* dial's error, or no client and no error after a greeting that was not 220.
ReturnedOnFailedAttempt ==
    /\ Returned
    /\ ~result.client
    /\ ~result.panic
    /\ result.err.kind \in {"dial", "nil"}

\* C1: a candidate pair whose dial fails or whose greeting is not a readable
\* 220 line is a non-fatal failed attempt: newSMTPClient does not return on
\* it while a later candidate pair of the route, or a later route, is left
\* to try.
C1_FailedAttemptContinues ==
    ReturnedOnFailedAttempt => ~LaterPairInRoute /\ ri >= Len(routes)

\* C2: for a route whose local-IP specification uses '&' (and not '|'), the
\* local addresses are tried in exactly the order written: after every
\* resolution sIps is the split list, unpermuted.
C2_FailoverKeepsOrder ==
    ( /\ npc \in {"remote", "pair", "select", "log"}
      /\ failover(route.LocalIp)
      /\ ~roundRobin(route.LocalIp) )
    => sIps = Split(route.LocalIp, "&")

\* Both separators occur in the specification.
HasBothSeparators(lip) ==
    (\E i \in 1..Len(lip) : lip[i] = "&") /\ (\E i \in 1..Len(lip) : lip[i] = "|")

\* C10 as stated: if some route's local-IP specification contains both
\* separators, newSMTPClient fails with a configuration error and performs no
\* network operation at all.
C10_AnyMixedRouteFailsWithoutNetwork ==
    (Returned /\ \E i \in 1..Len(routes) : HasBothSeparators(routes[i].LocalIp))
    => /\ result.err.kind = "config"
       /\ netLog = <<>>

\* C10 amended: when the search reaches a route whose local-IP specification
\* contains both separators, newSMTPClient fails there with the
\* configuration error naming that route, and no network operation (lookup,
\* dial, greeting read) is performed for that route; for the first route
\* that means none at all.
C10_MixedRouteReachedFailsWithoutNetwork ==
    (ri <= Len(routes) /\ HasBothSeparators(route.LocalIp))
    => /\ npc \in {"route", "returned"}
       /\ \A k \in 1..Len(netLog) : netLog[k].route # ri
       /\ ri = 1 => netLog = <<>>
       /\ Returned => ~result.client /\ result.err = ErrConfig(route.Id)

\* A mixed second route was reached, after network operations for the first,
\* and the configuration error returned.
C10_Witness ==
    /\ Returned
    /\ ri = 2
    /\ ri <= Len(routes)
    /\ HasBothSeparators(route.LocalIp)
    /\ result.err.kind = "config"
    /\ netLog # <<>>

\* The step of line 144 that goes on to the next remote address.
LogProceeds == LogDebug /\ npc' = "pair" /\ ai' = ai + 1

\* At least one dial was started, and every dial started so far ended in the
\* timeout case of the select.
EveryDialTimedOut ==
    /\ \E k \in 1..Len(netLog) : netLog[k].op = "dial"
    /\ \A k \in 1..Len(netLog) :
         netLog[k].op = "dial" => k < Len(netLog) /\ netLog[k + 1].op = "timeout"

\* C11: when the connect timer fires before the dial completes, the
\* candidate counts as failed with a timeout and newSMTPClient proceeds to
\* the next candidate pair; when every candidate dialled has timed out and
\* newSMTPClient has returned for no reason of configuration or resolution,
\* it has returned the exhaustion error.
C11_TimeoutProceedsThenExhausts ==
    /\ npc = "log" => ENABLED LogProceeds
    /\ ( /\ Returned
         /\ EveryDialTimedOut
         /\ result.err.kind \notin {"config", "invalidIP", "lookup", "badLocalIP"} )
       => /\ ~result.panic
          /\ ~result.client
          /\ result.err = ErrExhausted

\* The family of an address.
Family(ip) == IF ip \in V6 THEN "IPv6" ELSE "IPv4"

\* The route has exactly one IPv4 and one IPv6 local address and a literal
\* IPv4 remote host.
OneV4OneV6LocalAndV4Remote(r) ==
    LET locals == {r.LocalIp[i] : i \in 1..Len(r.LocalIp)}
    IN  /\ Cardinality(locals \cap V4) = 1
        /\ Cardinality(locals \cap V6) = 1
        /\ Len(r.RemoteHost) = 1
        /\ r.RemoteHost[1] \in V4

\* C14: a connection is attempted only for pairs whose local and remote
\* addresses belong to the same IP family; for a route with one IPv4 and one
\* IPv6 local address and a single IPv4 remote candidate, every dial of that
\* route is from the IPv4 local address to that candidate.
C14_OnlySameFamilyPairsDialled ==
    /\ \A k \in 1..Len(netLog) :
         netLog[k].op = "dial" => Family(netLog[k].local) = Family(netLog[k].remote)
    /\ \A i \in 1..Len(routes) :
         OneV4OneV6LocalAndV4Remote(routes[i]) =>
           \A k \in 1..Len(netLog) :
             (netLog[k].op = "dial" /\ netLog[k].route = i) =>
               /\ netLog[k].local \in V4
               /\ netLog[k].remote = routes[i].RemoteHost[1]

\* In such a route the IPv6 local address came first: its pair was skipped
\* and the IPv4 pair is being dialled.
C14_Witness ==
    /\ ri <= Len(routes)
    /\ OneV4OneV6LocalAndV4Remote(route)
    /\ npc = "select"
    /\ li = 2
    /\ localIPs[1] \in V6
    /\ localIPs[2] \in V4
    /\ netLog[Len(netLog)].op = "dial"
    /\ netLog[Len(netLog)].local = localIPs[2]

\* C17: after the connect timer has fired for a candidate, the late result
\* of the abandoned dial goroutine is discarded: the error recorded for the
\* candidate when it is logged is the timeout, the step to the next
\* candidate is not disturbed (no panic), and a client returned is one whose
\* dial completed before its timer was taken.
C17_LateDialResultDiscarded ==
    /\ npc = "log" => err = ErrTimeout
    /\ ~result.panic
    /\ (Returned /\ result.client) =>
         /\ netLog[Len(netLog)].op = "greet"
         /\ netLog[Len(netLog) - 1].op = "dial"

\* C18: newSMTPClient returns exactly one of a client and an error: a client
\* with a nil error, or no client with a non-nil error.
C18_ClientXorError ==
    (Returned /\ ~result.panic) => (result.client <=> result.err = NoErr)

\* --------------------------------------------------- claims on the methods
\* cmd is running and its timer has fired, the command was written without
\* error and the server will never answer it.
SilentServerTimerFired ==
    /\ cpc \in {"select", "read"}
    /\ send = "done"
    /\ cerr = NilErr
    /\ reply = Silent
    /\ timeoutCh

\* C3: cmd races the whole send-then-read sequence against the timer: when
\* the server has accepted the command but never responds, then once the
\* timer has fired cmd can return its timeout error (it is not left
\* blocked).
C3_CmdTimesOutWhenServerSilent ==
    SilentServerTimerFired => ENABLED CmdSelectTimeout

\* Quit's cmd is running and its timer has fired.
QuitTimerFired ==
    /\ stack # <<>>
    /\ Top.fn = "Quit"
    /\ cpc \in {"select", "read"}
    /\ timeoutCh

\* C4: every invocation of Quit ends with the transport closed, whatever
\* the outcome of the QUIT command, a server that never replies included:
\* once the timer of Quit's cmd has fired, cmd can return, after which Quit
\* closes the transport.
C4_QuitReachesClose ==
    QuitTimerFired => ENABLED (CmdSelectTimeout \/ CmdSelectDone \/ CmdRead)

\* Auth got its first reply, with code 235, after a Start that gave an
\* initial response.
AuthFirstReply235 ==
    /\ authv.hasInitial
    /\ Len(authv.replies) >= 1
    /\ authv.replies[1].code = 235

\* C5 as stated: when Start gives an initial response and the server's first
\* reply to AUTH has code 235, the loop ends without any call to Next.
C5_NoNextOnImmediate235 ==
    AuthFirstReply235 => authv.nexts = <<>>

\* C5 amended: in that case Next is called for that reply, with the reply's
\* message undecoded and isChallenge = false; when that call returns no
\* response and no error the loop ends there: Auth has returned code 235
\* without error, with no other call to Next and nothing sent after the
\* AUTH command.
C5_OneFinalNextOnImmediate235 ==
    AuthFirstReply235 =>
      /\ Len(authv.nexts) >= 1
      /\ authv.nexts[1].msg = authv.replies[1].msg
      /\ authv.nexts[1].more = FALSE
      /\ (~authv.nexts[1].has /\ authv.nexts[1].err = NilErr) =>
           /\ Idle
           /\ out.fn = "Auth" /\ out.code = 235 /\ out.err = NilErr
           /\ Len(authv.nexts) = 1
           /\ Len(authv.sent) = 1
           /\ ~closed

\* Auth has returned without error after an immediate 235 and one call of
\* Next with isChallenge = false.
C5_Witness ==
    /\ AuthFirstReply235
    /\ Idle
    /\ out.fn = "Auth"
    /\ out.err = NilErr
    /\ Len(authv.nexts) = 1
    /\ authv.nexts[1].more = FALSE

\* The lines of an EHLO response after the first.
AdvertisedLines(msg) == Tail(Split(msg, NL))

\* The mechanism names an EHLO response advertises: the words after the
\* keyword AUTH; none when no line has that keyword.
AdvertisedMechs(msg) ==
    LET ls == AdvertisedLines(msg)
        at == {i \in 1..Len(ls) : ls[i][1] = "AUTH"}
    IN  IF at = {} THEN <<>>
        ELSE LET l == ls[CHOOSE i \in at : TRUE]
                 words == SelectSeq(Tail(l), LAMBDA t : t # SP)
             IN  [i \in 1..Len(words) |-> <<words[i]>>]

\* The extension mapping is exactly what the response advertises.
ExtReflects(msg) ==
    LET ls == AdvertisedLines(msg)
    IN  /\ ~ext.nil
        /\ DOMAIN ext.m = {<<ls[i][1]>> : i \in 1..Len(ls)}
        /\ \A i \in 1..Len(ls) :
             ext.m[<<ls[i][1]>>] = SubSeq(ls[i], 3, Len(ls[i]))

\* C6: after every successful Ehlo (called directly, by Hello, or re-run by
\* StartTLS) the extension mapping and the mechanism list reflect only what
\* that response advertised; the mechanism list is empty when it advertises
\* no AUTH.
C6_EhloReplacesExtAndAuth ==
    (Idle /\ out.via = "Ehlo" /\ out.err = NilErr)
    => ExtReflects(out.msg) /\ auth = AdvertisedMechs(out.msg)

\* C7: Helo on a session that has completed an Ehlo leaves the extension
\* mapping and the mechanism list empty.
C7_HeloClearsExtAndAuth ==
    (Idle /\ out.fn = "Helo" /\ ehloDone)
    => (ext.nil \/ DOMAIN ext.m = {}) /\ auth = <<>>

\* C8: Rcpt returns no error exactly when the reply read has code 250 or
\* 251; for a reply with any other code its error is errors.New of the
\* reply's message.
C8_RcptAccepts250And251 ==
    (Idle /\ out.fn = "Rcpt")
    => /\ (out.err = NilErr) <=> (got.read /\ got.code \in {250, 251})
       /\ (got.read /\ got.code \notin {250, 251})
            => out.err = [kind |-> "errorsNew", code |-> 0, msg |-> got.msg]

\* Rcpt has returned the error made of the message of a 252 reply.
C8_Witness ==
    /\ Idle
    /\ out.fn = "Rcpt"
    /\ got.read
    /\ got.code = 252
    /\ out.err.kind = "errorsNew"
    /\ out.err.msg = <<"cannot", SP, "vrfy">>

\* C9: the TLS flag is true only if the most recent StartTLS got 220, put
\* the client on the TLS channel and had its post-TLS Ehlo succeed; a
\* StartTLS that was refused, or whose Ehlo failed, has returned an error
\* with the flag false.
C9_TlsFlagOnlyAfterFullUpgrade ==
    /\ tls => /\ tlsv.called /\ tlsv.got220 /\ tlsv.switched /\ tlsv.ehloOK
              /\ connTLS
              /\ text.tls
    /\ (Idle /\ out.fn = "StartTLS" /\ ~(tlsv.got220 /\ tlsv.ehloOK))
         => ~tls /\ out.err # NilErr

\* A second call, StartTLS, has returned without error and the flag is set.
C9_Witness ==
    /\ Idle
    /\ out.fn = "StartTLS"
    /\ out.err = NilErr
    /\ tls
    /\ ncalls = 2

\* The last reply Auth dispatched made the exchange fail: its code is
\* neither 334 nor 235, or it is a 334 challenge that is not base64, or Next
\* returned an error for it.
AuthFailed ==
    /\ authv.replies # <<>>
    /\ LET r == authv.replies[Len(authv.replies)]
       IN  \/ r.code \notin {334, 235}
           \/ r.code = 334 /\ \E i \in 1..Len(r.msg) : r.msg[i] \notin {"cjE=", "YzE="}
           \/ /\ authv.nexts # <<>>
              /\ authv.nexts[Len(authv.nexts)].err # NilErr

\* The error of that failure.
AuthFailure ==
    LET r == authv.replies[Len(authv.replies)]
    IN  IF r.code \notin {334, 235}
        THEN [kind |-> "textproto", code |-> r.code, msg |-> r.msg]
        ELSE IF authv.nexts # <<>> /\ authv.nexts[Len(authv.nexts)].err # NilErr
        THEN authv.nexts[Len(authv.nexts)].err
        ELSE [kind |-> "base64", code |-> 0, msg |-> <<>>]

\* The lines Auth handed to cmd after the one the failing reply answered.
SentAfterFailure ==
    SubSeq(authv.sent, Len(authv.replies) + 1, Len(authv.sent))

Spellings(k) ==
    {u \in {"auth", "AUTH", "size", "SIZE", "starttls", "STARTTLS"} :
       UpperTok(u) = UpperTok(k)} \cup {k}

\* C13: after a successful Ehlo whose response advertises a keyword in any
\* letter case, Extension reports it as supported, with its argument, for
\* every spelling of the keyword that differs only in case.
C13_ExtensionCaseInsensitive ==
    (Idle /\ out.via = "Ehlo" /\ out.err = NilErr) =>
      \A i \in 1..Len(AdvertisedLines(out.msg)) :
        LET l == AdvertisedLines(out.msg)[i]
        IN  \A k \in Spellings(l[1]) :
              Extension(<<k>>) = <<TRUE, SubSeq(l, 3, Len(l))>>

\* Auth has returned without error.
AuthReturnedOK == Idle /\ out.fn = "Auth" /\ out.err = NilErr

\* C15 as stated: whenever Auth returns without error, the server has
\* replied with code 235 during that exchange.
C15_AuthOKOnlyAfter235 ==
    AuthReturnedOK => \E i \in 1..Len(authv.replies) : authv.replies[i].code = 235

\* C15 amended: whenever Auth returns without error, the loop ended because
\* Next returned no further response and no error for the last reply; that
\* reply's code is 235 or 334 and is the code Auth returns, so the server
\* has replied 235 whenever the code returned is 235.
C15_AuthOKMeansNextDoneOn235Or334 ==
    AuthReturnedOK =>
      /\ authv.replies # <<>>
      /\ Len(authv.nexts) = Len(authv.replies)
      /\ LET r == authv.replies[Len(authv.replies)]
             n == authv.nexts[Len(authv.nexts)]
         IN  /\ r.code \in {235, 334}
             /\ out.code = r.code
             /\ ~n.has
             /\ n.err = NilErr
             /\ n.more = (r.code = 334)

\* Auth has returned without error, with code 334, the server never having
\* replied 235.
C15_Witness ==
    /\ AuthReturnedOK
    /\ out.code = 334
    /\ \A i \in 1..Len(authv.replies) : authv.replies[i].code = 334

\* C16: within one session commands stay strictly sequential, also after a
\* command that timed out: at most one line written is unanswered or unread
\* at any time (no line is written while an earlier command is in flight),
\* the reply a cmd reads is the reply to the line that cmd sent, and a cmd
\* whose line was written and answered can read its reply and return,
\* whatever timed out before it.
C16_CommandsStaySequential ==
    /\ Len(stream) <= 1
    /\ got.read => got.of = got.by
    /\ (cpc = "read" /\ reply = Answered) => ENABLED CmdRead

\* C19: when the RCPT command fails at the transport level or times out (no
\* reply was read), the error Rcpt returns is that failure: the timeout or
\* the transport error of cmd.
C19_RcptKeepsTransportError ==
    (Idle /\ out.fn = "Rcpt" /\ ~got.read) => out.err.kind \in {"timeout", "io"}

\* C20: whenever Auth returns an error, the transport has been closed by a
\* QUIT: the last line Auth sent is QUIT and the transport is closed.
C20_AuthErrorClosesTransport ==
    (Idle /\ out.fn = "Auth" /\ out.err # NilErr) =>
      /\ closed
      /\ authv.sent # <<>>
      /\ authv.sent[Len(authv.sent)] = <<"QUIT">>

====
